---- MODULE Spec2Model ----
(***************************************************************************)
(* GoogleKeepReader (llama_hub/google_keep/base.py).                       *)
(*                                                                         *)
(* load_data iterates over note_ids, calls _load_note for each id, which   *)
(* obtains credentials from service_account.json, asks the Keep service    *)
(* for notes/{note_id} and formats "Title: ...\nBody: ...".                *)
(*                                                                         *)
(* Strings are sequences of one-character strings, so concatenation,       *)
(* prefixes and line counts are computed.  Python's None and "no value"    *)
(* are the empty set, a present value v is {v}.  A dict is a function      *)
(* whose DOMAIN is the set of keys it has.                                 *)
(***************************************************************************)
EXTENDS Integers, Sequences, FiniteSets, TLC

VARIABLES
    store,            \* the remote service: resource name -> note dict
    fileExists,       \* os.path.exists("service_account.json")
    pc,               \* position of the (single) caller inside load_data
    note_ids,         \* argument of load_data: {} is None, {seq} a list
    i,                \* number of completed iterations of the for loop
    note_id,          \* loop variable of load_data / argument of _load_note
    credentials,      \* local of _load_note: {} or {creds}
    note,             \* local of _load_note: {} or {dict}
    note_text,        \* value returned by _load_note: {} or {string}
    results,          \* local list of load_data
    outcome,          \* "running", "ok" or the name of the raised exception
    returned,         \* what load_data returned: {} nothing, {list}
    remoteLog,        \* requests executed against the service in this call
    credLog,          \* results of the os.path.exists checks in this call
    retry,            \* this call repeats the arguments of a call that
                      \* ended with the remote failure
    absentSinceCall   \* the credential file did not exist at any moment
                      \* since load_data was entered

vars == <<store, fileExists, pc, note_ids, i, note_id, credentials, note,
          note_text, results, outcome, returned, remoteLog, credLog, retry,
          absentSinceCall>>

----------------------------------------------------------------------------
(* Bounds and input domains *)

MaxLen == 3

Ids == {<<"X">>, <<"a">>}

Groceries == <<"G","r","o","c","e","r","i","e","s">>
MilkEggs == <<"M","i","l","k","\n","E","g","g","s">>

\* Notes the service may hold: two plain-text notes (one with a line break
\* in its body), a note without "body", a list note whose body has no
\* "text", and a note without "title".
Notes ==
    { [title |-> Groceries, body |-> [text |-> MilkEggs]],
      [title |-> <<"T">>, body |-> [text |-> <<"B">>]],
      [title |-> <<"T">>],
      [title |-> <<"T">>, body |-> [list |-> <<"i">>]],
      [body |-> [text |-> <<"B">>]] }

SeqsUpTo(S, n) == UNION { [1..k -> S] : k \in 0..n }

\* Arguments a caller passes: None or a list of ids.
Args == {{}} \cup { {s} : s \in SeqsUpTo(Ids, MaxLen) }

----------------------------------------------------------------------------
(* Constants and pure helpers of the module *)

SCOPES == <<"https://www.googleapis.com/auth/keep.readonly">>

ValueError == "ValueError"
RuntimeError == "RuntimeError"
HttpError == "HttpError"
TypeError == "TypeError"
AttributeError == "AttributeError"

\* the spec's names of the error kinds
InvalidArgument == ValueError
AuthenticationRequired == RuntimeError
RemoteFetchError == HttpError
MalformedNoteError == {TypeError, AttributeError}

\* dict.get(key) is not None
Has(d, key) == key \in DOMAIN d

\* note_ids is None
IsNone_falsy(ids) == ids = {} \/ ids = {<<>>}
IsNone(ids) == ids = {}

\* f"notes/{note_id}"
ResourceName(id) == <<"n","o","t","e","s","/">> \o id

\* 'Title: ' + title + '\n' + 'Body: ' + text
NoteContent_nospace(title, text) ==
    <<"T","i","t","l","e",":"," ">> \o title \o <<"\n">>
        \o <<"B","o","d","y",":">> \o text
NoteContent_oneline(title, text) ==
    <<"T","i","t","l","e",":"," ">> \o title \o <<" ">>
        \o <<"B","o","d","y",":"," ">> \o text
NoteContent(title, text) ==
    <<"T","i","t","l","e",":"," ">> \o title \o <<"\n">>
        \o <<"B","o","d","y",":"," ">> \o text

\* The exception the two formatting lines raise for a note dict, or {}.
\*   'Title: ' + None            -> TypeError
\*   None.get("text")            -> AttributeError
\*   'Body: ' + None             -> TypeError
FormatError_lenient(n) ==
    IF ~Has(n, "title") THEN {TypeError}
    ELSE IF ~Has(n, "body") THEN {AttributeError}
    ELSE {}
FormatError(n) ==
    IF ~Has(n, "title") THEN {TypeError}
    ELSE IF ~Has(n, "body") THEN {AttributeError}
    ELSE IF ~Has(n["body"], "text") THEN {TypeError}
    ELSE {}

\* note.get("body").get("text"), for a note FormatError accepts
BodyText(n) == IF Has(n["body"], "text") THEN n["body"]["text"] ELSE <<>>

\* Document(text=note, extra_info={"note_id": note_id})
Document(text, id) == [text |-> text, extra_info |-> [note_id |-> id]]

\* results.append(doc)
AppendResult_front(rs, doc) == <<doc>> \o rs
AppendResult(rs, doc) == Append(rs, doc)

\* service_account.Credentials.from_service_account_file(...)
Creds == [file |-> "service_account.json", scopes |-> SCOPES]

----------------------------------------------------------------------------
(* Initial state: no call made yet *)

Init ==
    /\ store \in [{ResourceName(id) : id \in Ids} -> Notes]
    /\ fileExists \in BOOLEAN
    /\ pc = "idle"
    /\ note_ids = {}
    /\ i = 0
    /\ note_id = <<>>
    /\ credentials = {}
    /\ note = {}
    /\ note_text = {}
    /\ results = <<>>
    /\ outcome = "running"
    /\ returned = {}
    /\ remoteLog = <<>>
    /\ credLog = <<>>
    /\ retry = FALSE
    /\ absentSinceCall = FALSE

----------------------------------------------------------------------------
(* load_data *)

\* the frame of a new call: locals unset, nothing observed yet
NewFrame ==
    /\ i' = 0
    /\ note_id' = <<>>
    /\ credentials' = {}
    /\ note' = {}
    /\ note_text' = {}
    /\ returned' = {}
    /\ remoteLog' = <<>>
    /\ absentSinceCall' = ~fileExists
    /\ UNCHANGED <<store, fileExists>>

\* results kept from the previous call instead of results = []
load_data_accumulate ==
    /\ pc \in {"idle", "done"}
    /\ \E ids \in Args :
         /\ note_ids' = ids
         /\ retry' = (pc = "done" /\ outcome = HttpError /\ ids = note_ids)
         /\ IF IsNone(ids)
              THEN outcome' = ValueError /\ pc' = "done"
              ELSE outcome' = "running" /\ pc' = "for"
    /\ credLog' = <<>>
    /\ UNCHANGED results
    /\ NewFrame
\* the credential file looked at before the argument is
load_data_credsfirst ==
    /\ pc \in {"idle", "done"}
    /\ \E ids \in Args :
         /\ note_ids' = ids
         /\ retry' = (pc = "done" /\ outcome = HttpError /\ ids = note_ids)
         /\ IF ~fileExists
              THEN outcome' = RuntimeError /\ pc' = "done"
                     /\ UNCHANGED results
              ELSE IF IsNone(ids)
              THEN outcome' = ValueError /\ pc' = "done"
                     /\ UNCHANGED results
              ELSE outcome' = "running" /\ pc' = "for" /\ results' = <<>>
    /\ credLog' = <<fileExists>>
    /\ NewFrame
\* load_data(note_ids): the None check and results = []
load_data ==
    /\ pc \in {"idle", "done"}
    /\ \E ids \in Args :
         /\ note_ids' = ids
         /\ retry' = (pc = "done" /\ outcome = HttpError /\ ids = note_ids)
         /\ IF IsNone(ids)
              THEN /\ outcome' = ValueError
                   /\ pc' = "done"
                   /\ UNCHANGED results
              ELSE /\ outcome' = "running"
                   /\ pc' = "for"
                   /\ results' = <<>>
    /\ credLog' = <<>>
    /\ NewFrame

\* for note_id in note_ids: ... / return results
for_note_id ==
    /\ pc = "for"
    /\ LET ids == CHOOSE s \in note_ids : TRUE IN
         IF i < Len(ids)
           THEN /\ note_id' = ids[i + 1]
                /\ pc' = "get_credentials"
                /\ UNCHANGED <<outcome, returned>>
           ELSE /\ outcome' = "ok"
                /\ returned' = {results}
                /\ pc' = "done"
                /\ UNCHANGED note_id
    /\ UNCHANGED <<store, fileExists, note_ids, i, credentials, note,
                   note_text, results, remoteLog, credLog, retry,
                   absentSinceCall>>

\* results.append(Document(text=note, extra_info={"note_id": note_id}))
append ==
    /\ pc = "append"
    /\ results' = AppendResult(results,
                      Document(CHOOSE t \in note_text : TRUE, note_id))
    /\ i' = i + 1
    /\ pc' = "for"
    /\ UNCHANGED <<store, fileExists, note_ids, note_id, credentials, note,
                   note_text, outcome, returned, remoteLog, credLog, retry,
                   absentSinceCall>>

----------------------------------------------------------------------------
(* _load_note and _get_credentials *)

\* a missing file yields no credentials instead of raising
_get_credentials_noraise ==
    /\ pc = "get_credentials"
    /\ credLog' = Append(credLog, fileExists)
    /\ credentials' = IF fileExists THEN {Creds} ELSE {}
    /\ pc' = "execute"
    /\ UNCHANGED <<store, fileExists, note_ids, i, note_id, note, note_text,
                   results, outcome, returned, remoteLog, retry,
                   absentSinceCall>>
\* credentials of an earlier fetch of the call reused without a new check
_get_credentials_cached ==
    /\ pc = "get_credentials"
    /\ IF credLog # <<>> /\ credLog[Len(credLog)]
         THEN /\ credentials' = {Creds}
              /\ pc' = "execute"
              /\ UNCHANGED <<outcome, credLog>>
         ELSE /\ credLog' = Append(credLog, fileExists)
              /\ IF fileExists
                   THEN /\ credentials' = {Creds}
                        /\ pc' = "execute"
                        /\ UNCHANGED outcome
                   ELSE /\ outcome' = RuntimeError
                        /\ pc' = "done"
                        /\ UNCHANGED credentials
    /\ UNCHANGED <<store, fileExists, note_ids, i, note_id, note, note_text,
                   results, returned, remoteLog, retry, absentSinceCall>>
\* credentials = self._get_credentials()
_get_credentials ==
    /\ pc = "get_credentials"
    /\ credLog' = Append(credLog, fileExists)
    /\ IF fileExists
         THEN /\ credentials' = {Creds}
              /\ pc' = "execute"
              /\ UNCHANGED outcome
         ELSE /\ outcome' = RuntimeError
              /\ pc' = "done"
              /\ UNCHANGED credentials
    /\ UNCHANGED <<store, fileExists, note_ids, i, note_id, note, note_text,
                   results, returned, remoteLog, retry, absentSinceCall>>

\* The Keep service: the note stored under the name, or no answer when the
\* request fails (network, authorization, not found).
Response(name, up) ==
    IF up /\ credentials # {} /\ name \in DOMAIN store
      THEN {store[name]} ELSE {}

\* a failed request swallowed and the note skipped
execute_skip ==
    /\ pc = "execute"
    /\ \E up \in BOOLEAN :
         LET name == ResourceName(note_id)
             resp == Response(name, up)
         IN /\ remoteLog' = Append(remoteLog,
                                   [name |-> name, ok |-> resp # {}])
            /\ IF resp # {}
                 THEN /\ note' = resp
                      /\ pc' = "format"
                      /\ UNCHANGED i
                 ELSE /\ pc' = "for"
                      /\ i' = i + 1
                      /\ UNCHANGED note
    /\ UNCHANGED <<store, fileExists, note_ids, note_id, credentials,
                   note_text, results, outcome, returned, credLog, retry,
                   absentSinceCall>>
\* discovery.build("keep", "v1", credentials=credentials) and
\* notes_service.notes().get(name=f"notes/{note_id}").execute()
execute ==
    /\ pc = "execute"
    /\ \E up \in BOOLEAN :
         LET name == ResourceName(note_id)
             resp == Response(name, up)
         IN /\ remoteLog' = Append(remoteLog,
                                   [name |-> name, ok |-> resp # {}])
            /\ IF resp # {}
                 THEN /\ note' = resp
                      /\ pc' = "format"
                      /\ UNCHANGED outcome
                 ELSE /\ outcome' = HttpError
                      /\ pc' = "done"
                      /\ UNCHANGED note
    /\ UNCHANGED <<store, fileExists, note_ids, i, note_id, credentials,
                   note_text, results, returned, credLog, retry,
                   absentSinceCall>>

\* note_content = 'Title: ' + ... ; note_content += 'Body: ' + ... ; return
format ==
    /\ pc = "format"
    /\ LET n == CHOOSE d \in note : TRUE
           err == FormatError(n)
       IN IF err # {}
            THEN /\ outcome' = CHOOSE e \in err : TRUE
                 /\ pc' = "done"
                 /\ UNCHANGED note_text
            ELSE /\ note_text' = {NoteContent(n["title"], BodyText(n))}
                 /\ pc' = "append"
                 /\ UNCHANGED outcome
    /\ UNCHANGED <<store, fileExists, note_ids, i, note_id, credentials,
                   note, results, returned, remoteLog, credLog, retry,
                   absentSinceCall>>

----------------------------------------------------------------------------
(* Environment: the credential file is created or removed by others *)

CreateFile ==
    /\ ~fileExists
    /\ fileExists' = TRUE
    /\ absentSinceCall' = FALSE
    /\ UNCHANGED <<store, pc, note_ids, i, note_id, credentials, note,
                   note_text, results, outcome, returned, remoteLog,
                   credLog, retry>>

RemoveFile ==
    /\ fileExists
    /\ fileExists' = FALSE
    /\ UNCHANGED <<store, pc, note_ids, i, note_id, credentials, note,
                   note_text, results, outcome, returned, remoteLog,
                   credLog, retry, absentSinceCall>>

Next ==
    \/ load_data
    \/ for_note_id
    \/ _get_credentials
    \/ execute
    \/ format
    \/ append
    \/ CreateFile
    \/ RemoveFile

Spec == Init /\ [][Next]_vars

----------------------------------------------------------------------------
(* Vocabulary of the properties *)

Ids_of_call == CHOOSE s \in note_ids : TRUE
Returned_list == CHOOSE r \in returned : TRUE
Last(s) == s[Len(s)]

HasNewline(s) == \E k \in 1..Len(s) : s[k] = "\n"
IsPrefix(p, s) == Len(p) <= Len(s) /\ SubSeq(s, 1, Len(p)) = p

RECURSIVE SplitLines(_)
SplitLines(s) ==
    IF HasNewline(s)
      THEN LET k == CHOOSE j \in 1..Len(s) :
                        s[j] = "\n" /\ \A m \in 1..(j - 1) : s[m] # "\n"
           IN <<SubSeq(s, 1, k - 1)>> \o SplitLines(SubSeq(s, k + 1, Len(s)))
      ELSE <<s>>

TitlePrefix == <<"T","i","t","l","e",":"," ">>
BodyPrefix == <<"B","o","d","y",":"," ">>
NotesSlash == <<"n","o","t","e","s","/">>

\* the note the service holds for an identifier
RemoteNote(id) == store[NotesSlash \o id]
NoPlainBody(n) == ~("body" \in DOMAIN n) \/ ~("text" \in DOMAIN n["body"])
PlainNote(n) == "title" \in DOMAIN n /\ ~NoPlainBody(n)
\* the text a plain note is to be turned into
FetchedText(id) ==
    TitlePrefix \o RemoteNote(id)["title"] \o <<"\n">>
        \o BodyPrefix \o RemoteNote(id)["body"]["text"]
FreshResult(ids) ==
    [k \in 1..Len(ids) |->
        [text |-> FetchedText(ids[k]), extra_info |-> [note_id |-> ids[k]]]]
GroceriesText ==
    <<"T","i","t","l","e",":"," ","G","r","o","c","e","r","i","e","s","\n",
      "B","o","d","y",":"," ","M","i","l","k","\n","E","g","g","s">>

----------------------------------------------------------------------------
(* Properties *)

\* C1: a load whose fetches all succeed issued exactly Len(ids) requests,
\* the k-th for ids[k], and returns Len(ids) records, the k-th carrying
\* ids[k] as note_id and the text fetched for ids[k]; nothing is skipped,
\* deduplicated or reordered.
C1_OrderAndLength ==
    (pc = "done" /\ outcome = "ok") =>
        /\ returned # {}
        /\ Len(remoteLog) = Len(Ids_of_call)
        /\ Len(Returned_list) = Len(Ids_of_call)
        /\ \A k \in 1..Len(Ids_of_call) :
             /\ remoteLog[k] = [name |-> NotesSlash \o Ids_of_call[k],
                                ok |-> TRUE]
             /\ Returned_list[k]["extra_info"]["note_id"] = Ids_of_call[k]
             /\ Returned_list[k]["text"] = FetchedText(Ids_of_call[k])

C1_Witness ==
    /\ pc = "done" /\ outcome = "ok"
    /\ note_ids = {<<(<<"X">>), (<<"a">>), (<<"X">>)>>}
    /\ Len(Returned_list) = 3

\* C2: when the remote call for the k-th identifier fails, load ends with
\* RemoteFetchError, returns nothing (not the k-1 records already built),
\* and the failed request is the last one issued.
C2_RemoteFailureAborts ==
    /\ \A k \in 1..(Len(remoteLog) - 1) : remoteLog[k]["ok"]
    /\ (remoteLog # <<>> /\ ~Last(remoteLog)["ok"]) =>
          /\ pc = "done"
          /\ outcome = RemoteFetchError
          /\ returned = {}
          /\ Len(remoteLog) = i + 1
          /\ Len(results) = i
          /\ Last(remoteLog)["name"] = NotesSlash \o Ids_of_call[i + 1]

C2_Witness ==
    /\ pc = "done" /\ outcome = RemoteFetchError
    /\ Len(Ids_of_call) = 3
    /\ Len(remoteLog) = 2
    /\ Len(results) = 1
    /\ returned = {}

\* C3 as stated: with the credential file absent, credentials() fails with
\* AuthenticationRequired and every load call, the empty one included,
\* fails without a remote call and returns nothing.
C3_Original ==
    /\ (credLog # <<>> /\ ~Last(credLog)) => outcome = AuthenticationRequired
    /\ absentSinceCall => remoteLog = <<>>
    /\ (pc = "done" /\ absentSinceCall) =>
          (outcome # "ok" /\ returned = {})

\* C3 amended: with the credential file absent, credentials() fails with
\* AuthenticationRequired; a load of a non-empty sequence fails with
\* AuthenticationRequired at its first fetch, before any remote call, and
\* returns nothing; load([]) checks no credential and returns the empty
\* sequence; load(None) fails with InvalidArgument.
C3_Amended ==
    /\ (credLog # <<>> /\ ~Last(credLog)) => outcome = AuthenticationRequired
    /\ absentSinceCall => remoteLog = <<>>
    /\ (pc = "done" /\ absentSinceCall) =>
          IF note_ids = {} THEN outcome = InvalidArgument /\ returned = {}
          ELSE IF note_ids = {<<>>}
            THEN outcome = "ok" /\ returned = {<<>>} /\ credLog = <<>>
          ELSE /\ outcome = AuthenticationRequired
               /\ returned = {}
               /\ credLog = <<FALSE>>
               /\ i = 0

C3_Witness ==
    /\ pc = "done" /\ absentSinceCall
    /\ note_ids # {} /\ Len(Ids_of_call) >= 2
    /\ outcome = AuthenticationRequired
    /\ credLog = <<FALSE>>

\* C4: load(None) fails with InvalidArgument before any credential check
\* or remote call, whether or not the credential file exists.
C4_NoneRejectedFirst ==
    (pc = "done" /\ note_ids = {}) =>
        /\ outcome = InvalidArgument
        /\ credLog = <<>>
        /\ remoteLog = <<>>
        /\ returned = {}

C4_Witness ==
    /\ pc = "done" /\ note_ids = {}
    /\ outcome = InvalidArgument
    /\ absentSinceCall /\ ~fileExists

\* C5: load([]) returns the empty sequence with zero remote calls.
C5_EmptyList ==
    (pc = "done" /\ note_ids = {<<>>}) =>
        /\ outcome = "ok"
        /\ returned = {<<>>}
        /\ remoteLog = <<>>

C5_Witness ==
    /\ pc = "done" /\ note_ids = {<<>>}
    /\ returned = {<<>>}
    /\ fileExists

\* C6: for a note with title T and plain body B under identifier X,
\* _load_note requests notes/X and returns "Title: " + T + "\n" +
\* "Body: " + B, and load([X]) returns one record with that text and
\* metadata exactly {note_id: X}.
C6_ExactText ==
    /\ pc = "append" =>
          /\ Last(remoteLog) = [name |-> NotesSlash \o note_id, ok |-> TRUE]
          /\ note_text = {FetchedText(note_id)}
    /\ \A x \in Ids :
          (pc = "done" /\ note_ids = {<<x>>} /\ outcome = "ok") =>
              /\ remoteLog = <<[name |-> NotesSlash \o x, ok |-> TRUE]>>
              /\ returned = {<<[text |-> FetchedText(x),
                                extra_info |-> [note_id |-> x]]>>}
              /\ (RemoteNote(x) = [title |-> Groceries,
                                   body |-> [text |-> MilkEggs]]
                    => Returned_list[1]["text"] = GroceriesText)

C6_Witness ==
    /\ pc = "done" /\ outcome = "ok"
    /\ note_ids = {<< <<"X">> >>}
    /\ returned = {<<[text |-> GroceriesText,
                      extra_info |-> [note_id |-> <<"X">>]]>>}

\* C7: a fetched note without a plain-text body makes _load_note fail with
\* MalformedNoteError; load aborts as for a remote failure: nothing is
\* returned, no later fetch is issued, and no successful load contains such
\* a note.
C7_MalformedAborts ==
    /\ (note # {} /\ pc # "format" /\ NoPlainBody(CHOOSE n \in note : TRUE)) =>
          /\ pc = "done"
          /\ outcome \in MalformedNoteError
          /\ returned = {}
          /\ Len(remoteLog) = i + 1
          /\ Len(results) = i
    /\ (pc = "done" /\ outcome = "ok") =>
          \A k \in 1..Len(Ids_of_call) :
              ~NoPlainBody(RemoteNote(Ids_of_call[k]))

C7_Witness ==
    /\ pc = "done" /\ outcome = TypeError
    /\ note = {[title |-> <<"T">>, body |-> [list |-> <<"i">>]]}
    /\ Len(results) = 1
    /\ returned = {}

\* C8 as stated: the text produced for a plain note always has exactly
\* two lines, the first starting with "Title: ", the second with "Body: ".
C8_Original ==
    pc = "append" =>
        LET ls == SplitLines(CHOOSE t \in note_text : TRUE)
        IN /\ Len(ls) = 2
           /\ IsPrefix(TitlePrefix, ls[1])
           /\ IsPrefix(BodyPrefix, ls[2])

\* C8 amended: when neither the title nor the body contains a line break,
\* the produced text has exactly two lines, the first starting with
\* "Title: ", the second with "Body: ".
C8_Amended ==
    (/\ pc = "append"
     /\ ~HasNewline(RemoteNote(note_id)["title"])
     /\ ~HasNewline(RemoteNote(note_id)["body"]["text"])) =>
        LET ls == SplitLines(CHOOSE t \in note_text : TRUE)
        IN /\ Len(ls) = 2
           /\ IsPrefix(TitlePrefix, ls[1])
           /\ IsPrefix(BodyPrefix, ls[2])

C8_Witness ==
    /\ pc = "append"
    /\ note = {[title |-> <<"T">>, body |-> [text |-> <<"B">>]]}
    /\ note_text # {}
    /\ Len(SplitLines(CHOOSE t \in note_text : TRUE)) = 2

\* C9: load keeps nothing between invocations: a load(ids) repeated after
\* a load(ids) that ended with the remote failure fails only for a cause
\* arising in the repeated call, and when it succeeds it returns all
\* Len(ids) records, the same as a first load(ids) returns.
C9_Stateless ==
    (pc = "done" /\ retry) =>
        /\ outcome # "ok" =>
              \/ (remoteLog # <<>> /\ ~Last(remoteLog)["ok"])
              \/ (credLog # <<>> /\ ~Last(credLog))
              \/ (note # {} /\ ~PlainNote(CHOOSE n \in note : TRUE))
        /\ outcome = "ok" =>
              /\ returned = {FreshResult(Ids_of_call)}
              /\ Len(Returned_list) = Len(Ids_of_call)

C9_Witness ==
    /\ pc = "done" /\ retry /\ outcome = "ok"
    /\ Len(Ids_of_call) = 3
    /\ Len(Returned_list) = 3

\* C10: the credential is obtained anew in every fetch: one credential
\* check per fetch attempted, every remote call preceded by a successful
\* check of the same fetch, and a file that disappears after j fetches
\* makes load fail with AuthenticationRequired at fetch j+1 with j remote
\* calls issued.
C10_CredentialPerFetch ==
    /\ Len(remoteLog) <= Len(credLog)
    /\ Len(credLog) <= Len(remoteLog) + 1
    /\ \A k \in 1..Len(remoteLog) : credLog[k]
    /\ pc \in {"for", "get_credentials"} => Len(credLog) = i
    /\ pc = "execute" =>
          Len(credLog) = i + 1 /\ Last(credLog) /\ credentials # {}
    /\ (pc = "done" /\ outcome = "ok") => Len(credLog) = Len(Ids_of_call)
    /\ (pc = "done" /\ outcome = AuthenticationRequired) =>
          /\ Len(credLog) = i + 1
          /\ ~Last(credLog)
          /\ Len(remoteLog) = i
          /\ returned = {}

C10_Witness ==
    /\ pc = "done" /\ outcome = AuthenticationRequired
    /\ Len(remoteLog) = 2
    /\ i = 2
    /\ ~absentSinceCall

====
